---- MODULE Spec2Model ----
(***************************************************************************)
(* TSjson (src/sources/tsjson.py): a JSON file guarded by one              *)
(* threading.Lock per handle.  Threads call the public methods of one      *)
(* handle; every `with self.lock:` block is an Acquire step followed by    *)
(* the steps of its body, the last of which releases the lock.             *)
(***************************************************************************)
EXTENDS Integers, Sequences, FiniteSets, TLC

\* ------------------------------------------------------------------ bounds
NumThreads == 2
MaxLen == 2

Threads == 1..NumThreads

\* ----------------------------------------------------------------- records
(* A record is a mapping over the field names below; the value 0 says that *)
(* the record has no such key.  The empty mapping {} has no key at all.    *)
Fields == {"id", "k", "v"}
Vals == {1, 2}
EmptyRecord == [id |-> 0, k |-> 0, v |-> 0]
FullRecords == [id : Vals, k : Vals, v : Vals]
NoIdRecord == [id |-> 0, k |-> 1, v |-> 1]
Records == FullRecords \cup {EmptyRecord, NoIdRecord}
UidFields == {"id", "k"}

Has(r, f) == r[f] # 0
Truthy(r) == r # EmptyRecord

SeqsUpTo(S, n) == UNION {[1..m -> S] : m \in 0..n}

\* records used by concurrent callers
RecA == [id |-> 1, k |-> 1, v |-> 1]
RecA2 == [id |-> 1, k |-> 1, v |-> 2]
RecB == [id |-> 2, k |-> 2, v |-> 1]
ConcRecords == {RecA2, RecB}

\* ------------------------------------------------------- the file on disk
AbsentFile == [k |-> "absent", c |-> <<>>]
EmptyFile == [k |-> "empty", c |-> <<>>]
BadFile == [k |-> "bad", c |-> <<>>]
NoContentFile == [k |-> "nocontent", c |-> <<>>]
\* an object whose "Content" is no list, as {"Content": 1}
NotListFile == [k |-> "notlist", c |-> <<>>]
DocFile(c) == [k |-> "doc", c |-> c]

\* ---------------------------------------------------------- Python values
NoneValue == [k |-> "none", c |-> <<>>]
EmptyMap == [k |-> "emptymap", c |-> <<>>]
NoContentObj == [k |-> "nocontent", c |-> <<>>]
NotListObj == [k |-> "notlist", c |-> <<>>]
NotListValue == [k |-> "int", c |-> <<>>]
\* a mapping with a key that is no string, as {1: 2}
IntKeyObj == [k |-> "intkey", c |-> <<>>]
Doc(c) == [k |-> "doc", c |-> c]
List(c) == [k |-> "list", c |-> c]

RetBool(b) == [k |-> "bool", b |-> b]
RetPair(b, i) == [k |-> "pair", b |-> b, i |-> i]
RetResult(b, d) == [k |-> "result", found |-> b, data |-> d]
NoRet == [k |-> "noret"]
KeyError == [k |-> "exc", e |-> "KeyError"]
TypeError == [k |-> "exc", e |-> "TypeError"]
FileExistsError == [k |-> "exc", e |-> "FileExistsError"]

NoArg == [data |-> EmptyRecord, doc |-> EmptyMap, uid |-> "id", uid2 |-> "id", value |-> 0]

VARIABLES file, lock, pc, op, arg, fdata, content, found, ret, file0, dir_exists

vars == <<file, lock, pc, op, arg, fdata, content, found, ret, file0, dir_exists>>

ThreadInit ==
    /\ lock = 0
    /\ pc = [t \in Threads |-> "idle"]
    /\ op = [t \in Threads |-> "none"]
    /\ arg = [t \in Threads |-> NoArg]
    /\ fdata = [t \in Threads |-> NoneValue]
    /\ content = [t \in Threads |-> NoneValue]
    /\ found = [t \in Threads |-> FALSE]
    /\ ret = [t \in Threads |-> NoRet]

\* --------------------------------------------------- pure parts of the code
FirstOf(S) == IF S = {} THEN 0 ELSE CHOOSE i \in S : \A j \in S : i <= j

\* json_load of a non-empty file: the parsed value, NoneValue standing for
\* the ValueError of a text that is no JSON
json_load(f) ==
    IF f.k = "doc" THEN Doc(f.c)
    ELSE IF f.k = "nocontent" THEN NoContentObj
    ELSE IF f.k = "notlist" THEN NotListObj
    ELSE NoneValue

\* json_dump of a value: the file it leaves.  A key that is no string is
\* written as its string, so {1: 2} leaves the text of {"1": 2}
json_dump(d) ==
    IF d.k = "doc" THEN DocFile(d.c)
    ELSE IF d.k = "notlist" THEN NotListFile
    ELSE NoContentFile

\* what read() returns on file f
read_value(f) ==
    IF f.k \in {"absent", "empty"} THEN EmptyMap ELSE json_load(f)

\* the for loops: the first index (from 1) at which the loop stops, either on
\* a match or on a KeyError of a subscript; 0 when the loop runs to its end
UpdateErr(data, uid, msg) == ~Has(data, uid) \/ ~Has(msg, uid)
UpdateStop(c, data, uid) ==
    FirstOf({i \in 1..Len(c) : UpdateErr(data, uid, c[i]) \/ data[uid] = c[i][uid]})

UpdateTwiceErr(data, uid1, uid2, msg) ==
    \/ UpdateErr(data, uid1, msg)
    \/ data[uid1] = msg[uid1] /\ UpdateErr(data, uid2, msg)
UpdateTwiceStop(c, data, uid1, uid2) ==
    FirstOf({i \in 1..Len(c) :
                \/ UpdateTwiceErr(data, uid1, uid2, c[i])
                \/ data[uid1] = c[i][uid1] /\ data[uid2] = c[i][uid2]})

SearchErr(element, uid) == Truthy(element) /\ ~Has(element, uid)
SearchStop(c, element_value, uid) ==
    FirstOf({i \in 1..Len(c) :
                Truthy(c[i]) /\ (~Has(c[i], uid) \/ c[i][uid] = element_value)})

RemoveErr(data, uid) == ~Has(data, uid)
RemoveStop(c, element_value, uid) ==
    FirstOf({i \in 1..Len(c) : RemoveErr(c[i], uid) \/ c[i][uid] = element_value})

\* list.remove(x): the list without its first element equal to x
ListRemove(c, x) ==
    LET i == FirstOf({j \in 1..Len(c) : c[j] = x})
    IN  IF i = 0 THEN c ELSE SubSeq(c, 1, i - 1) \o SubSeq(c, i + 1, Len(c))

IsInStop(c, data) == FirstOf({i \in 1..Len(c) : c[i] = data})

\* ------------------------------------------------------------ the calls
(* A call enters a public method: it binds the arguments and runs the code  *)
(* that precedes the first `with self.lock:`.  For write() and             *)
(* write_content() that code ends with the test of lines 107 and 165,       *)
(* whether the parent directory of the file exists; when it does not, the   *)
(* next step of the call is os_makedirs.                                    *)
Enter(t, o, a, next) ==
    /\ pc[t] = "idle"
    /\ op' = [op EXCEPT ![t] = o]
    /\ arg' = [arg EXCEPT ![t] = a]
    /\ pc' = [pc EXCEPT ![t] = next]

read(t) ==
    /\ Enter(t, "read", NoArg, "read_lock")
    /\ UNCHANGED <<file, lock, fdata, content, found, ret>>

write(t, data) ==
    /\ Enter(t, "write", [NoArg EXCEPT !.doc = data],
             IF data = EmptyMap THEN "done"
             ELSE IF dir_exists THEN "write_lock" ELSE "write_mkdir")
    /\ ret' = [ret EXCEPT ![t] = IF data = EmptyMap THEN RetBool(FALSE) ELSE @]
    /\ fdata' = [fdata EXCEPT ![t] = data]
    /\ UNCHANGED <<file, lock, content, found>>

delete(t) ==
    /\ Enter(t, "delete", NoArg, "delete_lock")
    /\ UNCHANGED <<file, lock, fdata, content, found, ret>>

read_content(t) ==
    /\ Enter(t, "read_content", NoArg, "read_lock")
    /\ UNCHANGED <<file, lock, fdata, content, found, ret>>

write_content(t, data) ==
    /\ Enter(t, "write_content", [NoArg EXCEPT !.data = data],
             IF ~Truthy(data) THEN "done"
             ELSE IF dir_exists THEN "wc_lock" ELSE "wc_mkdir")
    /\ ret' = [ret EXCEPT ![t] = IF Truthy(data) THEN @ ELSE RetBool(FALSE)]
    /\ UNCHANGED <<file, lock, fdata, content, found>>

is_in(t, data) ==
    /\ Enter(t, "is_in", [NoArg EXCEPT !.data = data], "read_lock")
    /\ UNCHANGED <<file, lock, fdata, content, found, ret>>

is_in_position(t, data) ==
    /\ Enter(t, "is_in_position", [NoArg EXCEPT !.data = data], "read_lock")
    /\ UNCHANGED <<file, lock, fdata, content, found, ret>>

remove_by_uid(t, element_value, uid) ==
    /\ Enter(t, "remove_by_uid",
             [NoArg EXCEPT !.value = element_value, !.uid = uid], "read_lock")
    /\ UNCHANGED <<file, lock, fdata, content, found, ret>>

search_by_uid(t, element_value, uid) ==
    /\ Enter(t, "search_by_uid",
             [NoArg EXCEPT !.value = element_value, !.uid = uid], "read_lock")
    /\ UNCHANGED <<file, lock, fdata, content, found, ret>>

update(t, data, uid) ==
    /\ Enter(t, "update", [NoArg EXCEPT !.data = data, !.uid = uid], "read_lock")
    /\ UNCHANGED <<file, lock, fdata, content, found, ret>>

update_twice(t, data, uid1, uid2) ==
    /\ Enter(t, "update_twice",
             [NoArg EXCEPT !.data = data, !.uid = uid1, !.uid2 = uid2], "read_lock")
    /\ UNCHANGED <<file, lock, fdata, content, found, ret>>

clear_content(t) ==
    /\ Enter(t, "clear_content", NoArg, "clear_lock")
    /\ UNCHANGED <<file, lock, fdata, content, found, ret>>

\* --------------------------------------------------------------- the lock
LockPcs == {"read_lock", "write_lock", "delete_lock", "wc_lock", "clear_lock"}
HeldPcs == {"read_cs", "write_cs", "delete_cs", "wc_cs", "wc_dump", "clear_cs"}

Body(p) ==
    CASE p = "read_lock" -> "read_cs"
      [] p = "write_lock" -> "write_cs"
      [] p = "delete_lock" -> "delete_cs"
      [] p = "wc_lock" -> "wc_cs"
      [] p = "clear_lock" -> "clear_cs"

\* Acquire with a lock that excludes nobody
AcquireNoWait(t) ==
    /\ pc[t] \in LockPcs
    /\ lock' = t
    /\ pc' = [pc EXCEPT ![t] = Body(pc[t])]
    /\ UNCHANGED <<file, op, arg, fdata, content, found, ret, file0, dir_exists>>

\* `with self.lock:` on entry: Lock.acquire() blocks until the lock is free
Acquire(t) ==
    /\ pc[t] \in LockPcs
    /\ lock = 0
    /\ lock' = t
    /\ pc' = [pc EXCEPT ![t] = Body(pc[t])]
    /\ UNCHANGED <<file, op, arg, fdata, content, found, ret, file0, dir_exists>>

\* a method returns r to its caller, or an exception e leaves it uncaught;
\* the locals of the call are dropped
Leave(t, p, r) ==
    /\ pc' = [pc EXCEPT ![t] = p]
    /\ ret' = [ret EXCEPT ![t] = r]
    /\ fdata' = [fdata EXCEPT ![t] = NoneValue]
    /\ content' = [content EXCEPT ![t] = NoneValue]
    /\ found' = [found EXCEPT ![t] = FALSE]
Return(t, r) == Leave(t, "done", r)
Raise(t, e) == Leave(t, "raised", e)

\* os_makedirs(directory), lines 108 and 166, outside the lock and outside
\* the try: it raises FileExistsError when the directory is there by now
os_makedirs(t) ==
    /\ pc[t] \in {"write_mkdir", "wc_mkdir"}
    /\ IF dir_exists
       THEN Raise(t, FileExistsError) /\ UNCHANGED dir_exists
       ELSE /\ dir_exists' = TRUE
            /\ pc' = [pc EXCEPT ![t] =
                        IF pc[t] = "write_mkdir" THEN "write_lock" ELSE "wc_lock"]
            /\ UNCHANGED <<fdata, content, found, ret>>
    /\ UNCHANGED <<file, lock, op, arg, file0>>

\* ------------------------------------------------ raw read, write, delete
\* read_locked that keeps the lock on the early returns of lines 82 and 84
read_locked_leak(t) ==
    /\ pc[t] = "read_cs"
    /\ fdata' = [fdata EXCEPT ![t] = read_value(file)]
    /\ lock' = IF file.k \in {"absent", "empty"} THEN lock ELSE 0
    /\ pc' = [pc EXCEPT ![t] = "read_ret"]
    /\ UNCHANGED <<file, op, arg, content, found, ret, file0, dir_exists>>

\* read_locked with update() and update_twice() keeping the lock of their
\* read() for the write() that follows
read_locked_held(t) ==
    /\ pc[t] = "read_cs"
    /\ fdata' = [fdata EXCEPT ![t] = read_value(file)]
    /\ lock' = IF op[t] \in {"update", "update_twice"} THEN lock ELSE 0
    /\ pc' = [pc EXCEPT ![t] = "read_ret"]
    /\ UNCHANGED <<file, op, arg, content, found, ret, file0, dir_exists>>

\* read(), lines 79-91: the body of the with block and the except clause
read_locked(t) ==
    /\ pc[t] = "read_cs"
    /\ fdata' = [fdata EXCEPT ![t] = read_value(file)]
    /\ lock' = 0
    /\ pc' = [pc EXCEPT ![t] = "read_ret"]
    /\ UNCHANGED <<file, op, arg, content, found, ret, file0, dir_exists>>

\* read(), line 92, when read() is the method called
read_return(t) ==
    /\ pc[t] = "read_ret"
    /\ op[t] = "read"
    /\ Return(t, fdata[t])
    /\ UNCHANGED <<file, lock, op, arg, file0, dir_exists>>

\* write_locked that adds the records to those of the file
write_locked_merge(t) ==
    /\ pc[t] = "write_cs"
    /\ file' = IF file.k = "doc" /\ fdata[t].k = "doc"
               THEN DocFile(file.c \o fdata[t].c)
               ELSE json_dump(fdata[t])
    /\ lock' = 0
    /\ Return(t, IF op[t] = "write" THEN RetBool(TRUE) ELSE RetBool(found[t]))
    /\ UNCHANGED <<op, arg, file0, dir_exists>>

\* write(), lines 111-118; update() and update_twice() then return found
write_locked(t) ==
    /\ pc[t] = "write_cs"
    /\ file' = json_dump(fdata[t])
    /\ lock' = 0
    /\ Return(t, IF op[t] = "write" THEN RetBool(TRUE) ELSE RetBool(found[t]))
    /\ UNCHANGED <<op, arg, file0, dir_exists>>

\* delete_locked that removes without asking whether the file exists
delete_locked_strict(t) ==
    /\ pc[t] = "delete_cs"
    /\ file' = AbsentFile
    /\ lock' = 0
    /\ Return(t, RetBool(file.k # "absent"))
    /\ UNCHANGED <<op, arg, file0, dir_exists>>

\* delete(), lines 127-134
delete_locked(t) ==
    /\ pc[t] = "delete_cs"
    /\ file' = AbsentFile
    /\ lock' = 0
    /\ Return(t, RetBool(TRUE))
    /\ UNCHANGED <<op, arg, file0, dir_exists>>

\* ------------------------------------------------------- content methods
\* read_content(), lines 147-151, on the value read() returned
read_content_value(rd) ==
    IF rd.k \in {"none", "emptymap"} THEN EmptyMap
    ELSE IF rd.k = "nocontent" THEN KeyError
    ELSE IF rd.k = "notlist" THEN NotListValue
    ELSE List(rd.c)

read_content_return(t) ==
    /\ pc[t] = "read_ret"
    /\ op[t] = "read_content"
    /\ LET v == read_content_value(fdata[t])
       IN  IF v = KeyError THEN Raise(t, KeyError) ELSE Return(t, v)
    /\ UNCHANGED <<file, lock, op, arg, file0, dir_exists>>

\* the record write_content() is to append: its argument, or file_content[0]
\* when remove_by_uid() calls it (line 275)
WcData(t) ==
    IF op[t] = "write_content" THEN arg[t].data ELSE Head(fdata[t].c)

\* what write_content() hands back: its own result, or remove_by_uid()'s found
WcReturn(t, ok) ==
    Return(t, IF op[t] = "write_content" THEN RetBool(ok) ELSE RetBool(found[t]))

\* write_content_locked with the lock given up between the read and the dump
write_content_locked_unlocked(t) ==
    /\ pc[t] = "wc_cs"
    /\ IF file.k \in {"absent", "empty"}
       THEN /\ file' = DocFile(<<>>)
            /\ content' = [content EXCEPT ![t] = Doc(<<WcData(t)>>)]
            /\ pc' = [pc EXCEPT ![t] = "wc_dump"]
            /\ UNCHANGED <<fdata, found, ret>>
       ELSE IF json_load(file).k = "doc"
       THEN /\ content' = [content EXCEPT ![t] = Doc(Append(file.c, WcData(t)))]
            /\ pc' = [pc EXCEPT ![t] = "wc_dump"]
            /\ UNCHANGED <<file, fdata, found, ret>>
       ELSE /\ WcReturn(t, FALSE)
            /\ UNCHANGED file
    /\ lock' = 0
    /\ UNCHANGED <<op, arg, file0, dir_exists>>

\* write_content_locked with the record put first in the content
write_content_locked_front(t) ==
    /\ pc[t] = "wc_cs"
    /\ IF file.k \in {"absent", "empty"}
       THEN /\ file' = DocFile(<<>>)
            /\ content' = [content EXCEPT ![t] = Doc(<<WcData(t)>>)]
            /\ pc' = [pc EXCEPT ![t] = "wc_dump"]
            /\ UNCHANGED <<lock, fdata, found, ret>>
       ELSE IF json_load(file).k = "doc"
       THEN /\ content' = [content EXCEPT ![t] = Doc(<<WcData(t)>> \o file.c)]
            /\ pc' = [pc EXCEPT ![t] = "wc_dump"]
            /\ UNCHANGED <<file, lock, fdata, found, ret>>
       ELSE /\ lock' = 0
            /\ WcReturn(t, FALSE)
            /\ UNCHANGED file
    /\ UNCHANGED <<op, arg, file0, dir_exists>>

\* write_content_locked that starts from the skeleton whenever the file holds
\* no document
write_content_locked_skeleton(t) ==
    /\ pc[t] = "wc_cs"
    /\ IF json_load(file).k # "doc"
       THEN /\ file' = DocFile(<<>>)
            /\ content' = [content EXCEPT ![t] = Doc(<<WcData(t)>>)]
            /\ pc' = [pc EXCEPT ![t] = "wc_dump"]
            /\ UNCHANGED <<lock, fdata, found, ret>>
       ELSE /\ content' = [content EXCEPT ![t] = Doc(Append(file.c, WcData(t)))]
            /\ pc' = [pc EXCEPT ![t] = "wc_dump"]
            /\ UNCHANGED <<file, lock, fdata, found, ret>>
    /\ UNCHANGED <<op, arg, file0, dir_exists>>

\* write_content(), lines 169-179 and 186-194: under the lock, the file is
\* read (after the skeleton is written when it is absent or empty) and the
\* record is appended to the parsed content; a ValueError of json_load or a
\* KeyError/TypeError of content["Content"] is caught (lines 203-210)
write_content_locked(t) ==
    /\ pc[t] = "wc_cs"
    /\ IF file.k \in {"absent", "empty"}
       THEN /\ file' = DocFile(<<>>)
            /\ content' = [content EXCEPT ![t] = Doc(<<WcData(t)>>)]
            /\ pc' = [pc EXCEPT ![t] = "wc_dump"]
            /\ UNCHANGED <<lock, fdata, found, ret>>
       ELSE IF json_load(file).k = "doc"
       THEN /\ content' = [content EXCEPT ![t] = Doc(Append(file.c, WcData(t)))]
            /\ pc' = [pc EXCEPT ![t] = "wc_dump"]
            /\ UNCHANGED <<file, lock, fdata, found, ret>>
       ELSE /\ lock' = 0
            /\ WcReturn(t, FALSE)
            /\ UNCHANGED file
    /\ UNCHANGED <<op, arg, file0, dir_exists>>

\* write_content(), lines 181-184 and 196-199: the file is overwritten with
\* the new content and the lock released
write_content_dump(t) ==
    /\ pc[t] = "wc_dump"
    /\ file' = json_dump(content[t])
    /\ lock' = 0
    /\ WcReturn(t, TRUE)
    /\ UNCHANGED <<op, arg, file0, dir_exists>>

\* clear_content_locked with the lock kept for the rest of remove_by_uid
clear_content_locked_kept(t) ==
    /\ pc[t] = "clear_cs"
    /\ LET ok == file.k \notin {"absent", "empty"}
       IN  /\ file' = IF ok THEN DocFile(<<>>) ELSE file
           /\ IF op[t] = "clear_content"
              THEN Return(t, RetBool(ok)) /\ lock' = 0
              ELSE /\ pc' = [pc EXCEPT ![t] = "clear_ret"]
                   /\ UNCHANGED <<lock, fdata, content, found, ret>>
    /\ UNCHANGED <<op, arg, file0, dir_exists>>

\* clear_content_locked that writes the skeleton whatever the file was
clear_content_locked_creates(t) ==
    /\ pc[t] = "clear_cs"
    /\ LET ok == file.k \notin {"absent", "empty"}
       IN  /\ file' = DocFile(<<>>)
           /\ IF op[t] = "clear_content"
              THEN Return(t, RetBool(ok))
              ELSE /\ pc' = [pc EXCEPT ![t] = "clear_ret"]
                   /\ UNCHANGED <<fdata, content, found, ret>>
    /\ lock' = 0
    /\ UNCHANGED <<op, arg, file0, dir_exists>>

\* clear_content_locked that truncates the file and writes no skeleton
clear_content_locked_truncate(t) ==
    /\ pc[t] = "clear_cs"
    /\ LET ok == file.k \notin {"absent", "empty"}
       IN  /\ file' = IF ok THEN EmptyFile ELSE file
           /\ IF op[t] = "clear_content"
              THEN Return(t, RetBool(ok))
              ELSE /\ pc' = [pc EXCEPT ![t] = "clear_ret"]
                   /\ UNCHANGED <<fdata, content, found, ret>>
    /\ lock' = 0
    /\ UNCHANGED <<op, arg, file0, dir_exists>>

\* clear_content(), lines 374-385; remove_by_uid() goes on to line 274
clear_content_locked(t) ==
    /\ pc[t] = "clear_cs"
    /\ LET ok == file.k \notin {"absent", "empty"}
       IN  /\ file' = IF ok THEN DocFile(<<>>) ELSE file
           /\ IF op[t] = "clear_content"
              THEN Return(t, RetBool(ok))
              ELSE /\ pc' = [pc EXCEPT ![t] = "clear_ret"]
                   /\ UNCHANGED <<fdata, content, found, ret>>
    /\ lock' = 0
    /\ UNCHANGED <<op, arg, file0, dir_exists>>

\* ------------------------------------------- lookups on the value read()
\* Each runs after read() has returned and released the lock.  A document
\* without the "Content" key makes file_data["Content"] raise KeyError, and a
\* "Content" that is no list makes the for loop raise TypeError; none of these
\* methods catches either.
Unread(rd) == rd.k \in {"none", "emptymap"}

\* is_in(), lines 221-229
is_in_scan(t) ==
    /\ pc[t] = "read_ret"
    /\ op[t] = "is_in"
    /\ IF Unread(fdata[t]) THEN Return(t, RetBool(FALSE))
       ELSE IF fdata[t].k = "nocontent" THEN Raise(t, KeyError)
       ELSE IF fdata[t].k = "notlist" THEN Raise(t, TypeError)
       ELSE Return(t, RetBool(IsInStop(fdata[t].c, arg[t].data) # 0))
    /\ UNCHANGED <<file, lock, op, arg, file0, dir_exists>>

\* is_in_position(), lines 237-251: i counts the elements passed over
IsInPositionResult(c, data) ==
    LET j == IsInStop(c, data)
    IN  IF j = 0 THEN RetPair(FALSE, Len(c)) ELSE RetPair(TRUE, j - 1)

is_in_position_scan(t) ==
    /\ pc[t] = "read_ret"
    /\ op[t] = "is_in_position"
    /\ IF Unread(fdata[t]) THEN Return(t, RetPair(FALSE, -1))
       ELSE IF fdata[t].k = "nocontent" THEN Raise(t, KeyError)
       ELSE IF fdata[t].k = "notlist" THEN Raise(t, TypeError)
       ELSE Return(t, IsInPositionResult(fdata[t].c, arg[t].data))
    /\ UNCHANGED <<file, lock, op, arg, file0, dir_exists>>

\* search_by_uid(), lines 286-303
SearchResult(c, element_value, uid) ==
    LET j == SearchStop(c, element_value, uid)
    IN  IF j = 0 THEN RetResult(FALSE, <<>>)
        ELSE IF SearchErr(c[j], uid) THEN KeyError
        ELSE RetResult(TRUE, <<c[j]>>)

search_by_uid_scan(t) ==
    /\ pc[t] = "read_ret"
    /\ op[t] = "search_by_uid"
    /\ IF Unread(fdata[t]) THEN Return(t, RetResult(FALSE, <<>>))
       ELSE IF fdata[t].k = "nocontent" THEN Raise(t, KeyError)
       ELSE IF fdata[t].k = "notlist" THEN Raise(t, TypeError)
       ELSE LET r == SearchResult(fdata[t].c, arg[t].value, arg[t].uid)
            IN  IF r = KeyError THEN Raise(t, KeyError) ELSE Return(t, r)
    /\ UNCHANGED <<file, lock, op, arg, file0, dir_exists>>

\* -------------------------------------------------- update, update_twice
\* lines 313-333 and 343-363 up to the call of write(): j is where the loop
\* stopped, err whether it stopped on a KeyError
UpdateStep(t, j, err) ==
    IF Unread(fdata[t]) THEN Return(t, RetBool(FALSE))
    ELSE IF fdata[t].k = "nocontent" THEN Raise(t, KeyError)
    ELSE IF fdata[t].k = "notlist" THEN Raise(t, TypeError)
    ELSE IF j = 0 THEN Return(t, RetBool(FALSE))
    ELSE IF err THEN Raise(t, KeyError)
    ELSE /\ found' = [found EXCEPT ![t] = TRUE]
         /\ fdata' = [fdata EXCEPT ![t] = Doc([@.c EXCEPT ![j] = arg[t].data])]
         /\ pc' = [pc EXCEPT ![t] = "write_lock"]
         /\ UNCHANGED <<content, ret>>

update_scan(t) ==
    /\ pc[t] = "read_ret"
    /\ op[t] = "update"
    /\ LET j == UpdateStop(fdata[t].c, arg[t].data, arg[t].uid)
       IN  UpdateStep(t, j, j # 0 /\ UpdateErr(arg[t].data, arg[t].uid, fdata[t].c[j]))
    /\ UNCHANGED <<file, lock, op, arg, file0, dir_exists>>

update_twice_scan(t) ==
    /\ pc[t] = "read_ret"
    /\ op[t] = "update_twice"
    /\ LET j == UpdateTwiceStop(fdata[t].c, arg[t].data, arg[t].uid, arg[t].uid2)
       IN  UpdateStep(t, j, j # 0 /\ UpdateTwiceErr(arg[t].data, arg[t].uid,
                                                    arg[t].uid2, fdata[t].c[j]))
    /\ UNCHANGED <<file, lock, op, arg, file0, dir_exists>>

\* ---------------------------------------------------------- remove_by_uid
\* lines 261-273: read_content() has returned; the loop removes the first
\* match from the list in memory, then clear_content() is called
remove_by_uid_scan(t) ==
    /\ pc[t] = "read_ret"
    /\ op[t] = "remove_by_uid"
    /\ LET fc == read_content_value(fdata[t])
           j == RemoveStop(fc.c, arg[t].value, arg[t].uid)
       IN  IF fc = KeyError THEN Raise(t, KeyError)
           ELSE IF fc = NotListValue THEN Raise(t, TypeError)
           ELSE IF fc = EmptyMap THEN Return(t, RetBool(FALSE))
           ELSE IF j # 0 /\ RemoveErr(fc.c[j], arg[t].uid) THEN Raise(t, KeyError)
           ELSE /\ found' = [found EXCEPT ![t] = j # 0]
                /\ fdata' = [fdata EXCEPT ![t] =
                                IF j = 0 THEN fc ELSE List(ListRemove(fc.c, fc.c[j]))]
                /\ pc' = [pc EXCEPT ![t] = "clear_lock"]
                /\ UNCHANGED <<content, ret>>
    /\ UNCHANGED <<file, lock, op, arg, file0, dir_exists>>

\* lines 274-276: clear_content() has returned; the first remaining record is
\* handed to write_content(), which refuses a falsy one (line 161)
remove_by_uid_rewrite(t) ==
    /\ pc[t] = "clear_ret"
    /\ IF fdata[t].c # <<>> /\ Truthy(Head(fdata[t].c))
       THEN /\ pc' = [pc EXCEPT ![t] = "wc_lock"]
            /\ UNCHANGED <<fdata, content, found, ret>>
       ELSE Return(t, RetBool(found[t]))
    /\ UNCHANGED <<file, lock, op, arg, file0, dir_exists>>

\* ----------------------------------------------------- the specifications
\* the steps of a call once it is entered
Steps(t) ==
    \/ Acquire(t)
    \/ read_locked(t)
    \/ read_return(t)
    \/ write_locked(t)
    \/ delete_locked(t)
    \/ read_content_return(t)
    \/ write_content_locked(t)
    \/ write_content_dump(t)
    \/ clear_content_locked(t)
    \/ is_in_scan(t)
    \/ is_in_position_scan(t)
    \/ search_by_uid_scan(t)
    \/ update_scan(t)
    \/ update_twice_scan(t)
    \/ remove_by_uid_scan(t)
    \/ remove_by_uid_rewrite(t)

\* Spec: every thread calls one method of the same handle, concurrently
ConcFiles == {AbsentFile, DocFile(<<RecA, RecB>>)}

Init ==
    /\ file \in ConcFiles
    /\ file0 = file
    /\ dir_exists = TRUE
    /\ ThreadInit

Calls(t) ==
    \/ read(t) /\ UNCHANGED <<file0, dir_exists>>
    \/ write(t, Doc(<<RecB>>)) /\ UNCHANGED <<file0, dir_exists>>
    \/ delete(t) /\ UNCHANGED <<file0, dir_exists>>
    \/ read_content(t) /\ UNCHANGED <<file0, dir_exists>>
    \/ \E r \in ConcRecords : write_content(t, r) /\ UNCHANGED <<file0, dir_exists>>
    \/ is_in(t, RecB) /\ UNCHANGED <<file0, dir_exists>>
    \/ is_in_position(t, RecB) /\ UNCHANGED <<file0, dir_exists>>
    \/ \E v \in Vals : remove_by_uid(t, v, "id") /\ UNCHANGED <<file0, dir_exists>>
    \/ search_by_uid(t, 2, "id") /\ UNCHANGED <<file0, dir_exists>>
    \/ \E r \in ConcRecords : update(t, r, "id") /\ UNCHANGED <<file0, dir_exists>>
    \/ update_twice(t, RecA2, "id", "k") /\ UNCHANGED <<file0, dir_exists>>
    \/ clear_content(t) /\ UNCHANGED <<file0, dir_exists>>

Next == \E t \in Threads : Calls(t) \/ Steps(t)

Spec == Init /\ [][Next]_vars

\* FairSpec: Spec with every thread that is inside a call scheduled again and
\* again; no thread is made to start a call
FairSpec == Spec /\ \A t \in Threads : WF_vars(Steps(t))

\* SeqSpec: one call by one thread, no concurrent caller, on any file
SeqFiles ==
    {AbsentFile, EmptyFile, BadFile, NoContentFile, NotListFile}
        \cup {DocFile(c) : c \in SeqsUpTo(Records, MaxLen)}
SeqDocs ==
    {EmptyMap, NoContentObj, NotListObj, IntKeyObj}
        \cup {Doc(c) : c \in SeqsUpTo(Records, 1)}

SeqInit ==
    /\ file \in SeqFiles
    /\ file0 = file
    /\ dir_exists = TRUE
    /\ ThreadInit

SeqCalls(t) ==
    \/ read(t) /\ UNCHANGED <<file0, dir_exists>>
    \/ \E d \in SeqDocs : write(t, d) /\ UNCHANGED <<file0, dir_exists>>
    \/ delete(t) /\ UNCHANGED <<file0, dir_exists>>
    \/ read_content(t) /\ UNCHANGED <<file0, dir_exists>>
    \/ \E r \in Records : write_content(t, r) /\ UNCHANGED <<file0, dir_exists>>
    \/ \E r \in Records : is_in(t, r) /\ UNCHANGED <<file0, dir_exists>>
    \/ \E r \in Records : is_in_position(t, r) /\ UNCHANGED <<file0, dir_exists>>
    \/ \E v \in Vals, u \in UidFields : remove_by_uid(t, v, u) /\ UNCHANGED <<file0, dir_exists>>
    \/ \E v \in Vals, u \in UidFields : search_by_uid(t, v, u) /\ UNCHANGED <<file0, dir_exists>>
    \/ \E r \in Records, u \in UidFields : update(t, r, u) /\ UNCHANGED <<file0, dir_exists>>
    \/ \E r \in Records : update_twice(t, r, "id", "k") /\ UNCHANGED <<file0, dir_exists>>
    \/ clear_content(t) /\ UNCHANGED <<file0, dir_exists>>

SeqNext == SeqCalls(1) \/ Steps(1)

SeqSpec == SeqInit /\ [][SeqNext]_vars

\* AppendSpec: every thread calls write_content once, the file absent at first
AppendInit ==
    /\ file = AbsentFile
    /\ file0 = file
    /\ dir_exists = TRUE
    /\ ThreadInit

AppendNext ==
    \E t \in Threads :
        \/ \E r \in Records : write_content(t, r) /\ UNCHANGED <<file0, dir_exists>>
        \/ Acquire(t)
        \/ write_content_locked(t)
        \/ write_content_dump(t)

AppendSpec == AppendInit /\ [][AppendNext]_vars

\* DirSpec: every thread calls write or write_content once, the parent
\* directory of the file not there at first
DirInit ==
    /\ file = AbsentFile
    /\ file0 = file
    /\ dir_exists = FALSE
    /\ ThreadInit

DirNext ==
    \E t \in Threads :
        \/ \E r \in ConcRecords : write(t, Doc(<<r>>)) /\ UNCHANGED <<file0, dir_exists>>
        \/ \E r \in ConcRecords : write_content(t, r) /\ UNCHANGED <<file0, dir_exists>>
        \/ os_makedirs(t)
        \/ Acquire(t)
        \/ write_locked(t)
        \/ write_content_locked(t)
        \/ write_content_dump(t)

DirSpec == DirInit /\ [][DirNext]_vars

\* SerialSpec: the threads call delete or read one after the other, thread
\* t + 1 once thread t has left its call, on any file
Turn(t) == \A u \in Threads : u < t => pc[u] \in {"done", "raised"}

SerialNext ==
    \E t \in Threads :
        \/ Turn(t) /\ delete(t) /\ UNCHANGED <<file0, dir_exists>>
        \/ Turn(t) /\ read(t) /\ UNCHANGED <<file0, dir_exists>>
        \/ Acquire(t)
        \/ delete_locked(t)
        \/ read_locked(t)
        \/ read_return(t)

SerialSpec == SeqInit /\ [][SerialNext]_vars

\* LockSpec: every thread calls one of the methods that take the lock, or
\* one that calls them, concurrently, on a file of any kind
LockFiles == {AbsentFile, EmptyFile, BadFile, NoContentFile, DocFile(<<RecA>>)}

LockInit ==
    /\ file \in LockFiles
    /\ file0 = file
    /\ dir_exists = TRUE
    /\ ThreadInit

LockNext ==
    \E t \in Threads :
        \/ read(t) /\ UNCHANGED <<file0, dir_exists>>
        \/ write(t, Doc(<<RecB>>)) /\ UNCHANGED <<file0, dir_exists>>
        \/ delete(t) /\ UNCHANGED <<file0, dir_exists>>
        \/ write_content(t, RecB) /\ UNCHANGED <<file0, dir_exists>>
        \/ clear_content(t) /\ UNCHANGED <<file0, dir_exists>>
        \/ update(t, RecA2, "id") /\ UNCHANGED <<file0, dir_exists>>
        \/ remove_by_uid(t, 1, "id") /\ UNCHANGED <<file0, dir_exists>>
        \/ Acquire(t)
        \/ read_locked(t)
        \/ read_return(t)
        \/ write_locked(t)
        \/ delete_locked(t)
        \/ write_content_locked(t)
        \/ write_content_dump(t)
        \/ clear_content_locked(t)
        \/ update_scan(t)
        \/ remove_by_uid_scan(t)
        \/ remove_by_uid_rewrite(t)

LockSpec == LockInit /\ [][LockNext]_vars

\* ShapeSpec: every thread calls one of the content methods or delete,
\* concurrently, on a file as calls of these methods that have returned leave
\* it: absent, or a document of up to MaxLen records
ShapeFiles == {AbsentFile} \cup {DocFile(c) : c \in SeqsUpTo({RecA, RecB}, MaxLen)}

ShapeInit ==
    /\ file \in ShapeFiles
    /\ file0 = file
    /\ dir_exists = TRUE
    /\ ThreadInit

ShapeNext ==
    \E t \in Threads :
        \/ \E r \in ConcRecords : write_content(t, r) /\ UNCHANGED <<file0, dir_exists>>
        \/ clear_content(t) /\ UNCHANGED <<file0, dir_exists>>
        \/ update(t, RecA2, "id") /\ UNCHANGED <<file0, dir_exists>>
        \/ update_twice(t, RecA2, "id", "k") /\ UNCHANGED <<file0, dir_exists>>
        \/ remove_by_uid(t, 1, "id") /\ UNCHANGED <<file0, dir_exists>>
        \/ delete(t) /\ UNCHANGED <<file0, dir_exists>>
        \/ Acquire(t)
        \/ read_locked(t)
        \/ write_locked(t)
        \/ delete_locked(t)
        \/ write_content_locked(t)
        \/ write_content_dump(t)
        \/ clear_content_locked(t)
        \/ update_scan(t)
        \/ update_twice_scan(t)
        \/ remove_by_uid_scan(t)
        \/ remove_by_uid_rewrite(t)

ShapeSpec == ShapeInit /\ [][ShapeNext]_vars

\* ------------------------------------------------------------- the claims
Left(t) == pc[t] \in {"done", "raised"}
Count(c, r) == Cardinality({i \in 1..Len(c) : c[i] = r})

\* C1: when every thread has called write_content once with a non-empty
\* record, all records distinct, on a file absent at first, then once all the
\* calls have returned each has returned True and the Content of the file
\* holds each of the records exactly once and nothing else.
C1_AppendsAllKept ==
    ( /\ \A t \in Threads : Left(t) /\ Truthy(arg[t].data)
      /\ \A t, u \in Threads : t # u => arg[t].data # arg[u].data )
    => /\ \A t \in Threads : pc[t] = "done" /\ ret[t] = RetBool(TRUE)
       /\ file.k = "doc"
       /\ Len(file.c) = NumThreads
       /\ \A t \in Threads : Count(file.c, arg[t].data) = 1

\* all the appends have returned, and the record of thread 2 precedes that of
\* thread 1 in the file
C1_Witness ==
    /\ \A t \in Threads : pc[t] = "done" /\ Truthy(arg[t].data)
    /\ \A t, u \in Threads : t # u => arg[t].data # arg[u].data
    /\ file.k = "doc"
    /\ Len(file.c) = NumThreads
    /\ file.c[1] = arg[2].data
    /\ file.c[2] = arg[1].data

\* C2: at most one thread is inside a `with self.lock:` block, where every
\* access to the file is made, and a thread inside one holds the lock.
C2_MutualExclusion ==
    /\ \A t, u \in Threads : pc[t] \in HeldPcs /\ pc[u] \in HeldPcs => t = u
    /\ \A t \in Threads : pc[t] \in HeldPcs => lock = t

\* a thread is between the read and the dump of write_content while another
\* waits for the lock
C2_Witness ==
    \E t, u \in Threads : pc[t] = "wc_dump" /\ lock = t /\ pc[u] \in LockPcs

\* the records of c that an update by uid (or by uid1 and uid2) is to find
Matches(r, data, uid) == Has(r, uid) /\ Has(data, uid) /\ r[uid] = data[uid]
FirstMatch(c, data, uid) == FirstOf({i \in 1..Len(c) : Matches(c[i], data, uid)})
FirstMatchTwice(c, data, uid1, uid2) ==
    FirstOf({i \in 1..Len(c) : Matches(c[i], data, uid1) /\ Matches(c[i], data, uid2)})
Replaced(c, i, data) == IF i = 0 THEN c ELSE [c EXCEPT ![i] = data]

\* the Content after the update call of thread t runs alone on Content c
UpdatedBy(t, c) ==
    Replaced(c,
             IF op[t] = "update" THEN FirstMatch(c, arg[t].data, arg[t].uid)
             ELSE FirstMatchTwice(c, arg[t].data, arg[t].uid, arg[t].uid2),
             arg[t].data)
Content0 == IF file0.k = "doc" THEN file0.c ELSE <<>>

\* C3: when one update (or update_twice) call that found its record and one
\* write_content call have both returned True and no other call was made,
\* the file holds what the two calls leave when run one after the other, in
\* one of the two orders.
C3_UpdateAppendSerial ==
    \A a, b \in Threads :
        ( /\ a # b
          /\ pc[a] = "done" /\ op[a] \in {"update", "update_twice"}
          /\ ret[a] = RetBool(TRUE)
          /\ pc[b] = "done" /\ op[b] = "write_content" /\ ret[b] = RetBool(TRUE)
          /\ \A u \in Threads \ {a, b} : pc[u] = "idle" )
        => /\ file.k = "doc"
           /\ file.c \in {Append(UpdatedBy(a, Content0), arg[b].data),
                          UpdatedBy(a, Append(Content0, arg[b].data))}

\* C4: a write_content call with a non-empty record, made with no concurrent
\* caller on a file that is absent, empty or a document with a Content list,
\* returns True, and read_content then returns the former Content (none for
\* an absent or empty file) with the record added at the end.
C4_AppendLast ==
    \A t \in Threads :
        ( /\ Left(t) /\ op[t] = "write_content" /\ Truthy(arg[t].data)
          /\ file0.k \in {"absent", "empty", "doc"} )
        => /\ pc[t] = "done"
           /\ ret[t] = RetBool(TRUE)
           /\ read_content_value(read_value(file)) = List(Append(Content0, arg[t].data))

\* an append to a document of two other records has returned
C4_Witness ==
    /\ pc[1] = "done" /\ op[1] = "write_content" /\ ret[1] = RetBool(TRUE)
    /\ file0.k = "doc" /\ Len(file0.c) = 2 /\ file0.c[1] # file0.c[2]
    /\ arg[1].data # file0.c[2]
    /\ Len(file.c) = 3

MatchOf(t, c) ==
    IF op[t] = "update" THEN FirstMatch(c, arg[t].data, arg[t].uid)
    ELSE FirstMatchTwice(c, arg[t].data, arg[t].uid, arg[t].uid2)

\* C5: an update (update_twice) call made with no concurrent caller on a
\* document holding a record equal to the given one on the uid field (on both
\* uid fields) returns True and leaves the Content with the first such record
\* replaced by the given one and every other position as it was.
C5_UpdateFirstMatch ==
    \A t \in Threads :
        ( /\ Left(t) /\ op[t] \in {"update", "update_twice"}
          /\ file0.k = "doc" /\ MatchOf(t, file0.c) # 0 )
        => /\ pc[t] = "done"
           /\ ret[t] = RetBool(TRUE)
           /\ file = DocFile(Replaced(file0.c, MatchOf(t, file0.c), arg[t].data))

\* C6: an update (update_twice) call made with no concurrent caller on a file
\* that is absent, empty, unparsable, or a document none of whose records
\* matches, returns False and leaves the file as it was.
C6_UpdateNoMatchNoWrite ==
    \A t \in Threads :
        ( /\ Left(t) /\ op[t] \in {"update", "update_twice"}
          /\ \/ file0.k \in {"absent", "empty", "bad"}
             \/ file0.k = "doc" /\ MatchOf(t, file0.c) = 0 )
        => /\ pc[t] = "done"
           /\ ret[t] = RetBool(FALSE)
           /\ file = file0

\* C7: is_in_position returns (True, i) with i the zero-based index of the
\* first element of Content equal to the record, and (False, -1) whenever no
\* element is equal, a document with a non-empty Content included.
C7_IsInPositionIndex ==
    \A t \in Threads :
        ( /\ Left(t) /\ op[t] = "is_in_position"
          /\ file0.k \in {"absent", "empty", "bad", "doc"} )
        => /\ pc[t] = "done"
           /\ LET j == FirstOf({i \in 1..Len(Content0) : Content0[i] = arg[t].data})
              IN  ret[t] = IF j = 0 THEN RetPair(FALSE, -1) ELSE RetPair(TRUE, j - 1)

\* C8: search_by_uid returns found=True with the first record of Content, the
\* empty ones skipped, whose uid field equals the value, and found=False with
\* no record when none does or the file is absent, empty or unparsable.
C8_SearchFirstMatch ==
    \A t \in Threads :
        ( /\ Left(t) /\ op[t] = "search_by_uid"
          /\ file0.k \in {"absent", "empty", "bad", "doc"} )
        => /\ pc[t] = "done"
           /\ LET j == FirstOf({i \in 1..Len(Content0) :
                                   /\ Truthy(Content0[i])
                                   /\ Has(Content0[i], arg[t].uid)
                                   /\ Content0[i][arg[t].uid] = arg[t].value})
              IN  ret[t] = IF j = 0 THEN RetResult(FALSE, <<>>)
                           ELSE RetResult(TRUE, <<Content0[j]>>)

\* C9: remove_by_uid is three critical sections, not one.  The thread running
\* it does not hold the lock between its read, its clear_content and its
\* write_content; its clear_content empties the Content whatever other
\* threads have written since its read; and its write_content appends the
\* first record of the list it read, to whatever the file holds by then.
RemoveBetween == {"read_ret", "clear_lock", "clear_ret", "wc_lock"}
C9_RemoveNotAtomic ==
    [][\A t \in Threads :
          op[t] = "remove_by_uid" =>
             /\ pc'[t] \in RemoveBetween => lock' # t
             /\ (pc[t] = "clear_cs" /\ pc'[t] = "clear_ret" /\ file.k \in {"doc", "bad", "nocontent"})
                   => file' = DocFile(<<>>) /\ lock' = 0
             /\ (pc[t] = "wc_dump" /\ pc'[t] = "done" /\ file.k = "doc")
                   => file' = DocFile(Append(file.c, Head(fdata[t].c))) /\ lock' = 0]_vars

\* while remove_by_uid runs on a document of two records, between its
\* clear_content and its write_content, a read_content of another thread has
\* returned an empty Content
C9_Witness ==
    \E a, b \in Threads :
        /\ Len(file0.c) = 2
        /\ op[a] = "remove_by_uid" /\ pc[a] \in {"clear_ret", "wc_lock"}
        /\ op[b] = "read_content" /\ pc[b] = "done" /\ ret[b] = List(<<>>)
        /\ \A u \in Threads \ {a, b} : pc[u] = "idle"

\* remove_by_uid has read a document of two records (the list it holds is
\* the one record left of the two) and has cleared the file; the write_content
\* of another thread returned True in between, and its record is gone
C9_AppendLost ==
    \E a, b \in Threads :
        /\ Len(file0.c) = 2
        /\ op[a] = "remove_by_uid" /\ pc[a] = "clear_ret" /\ found[a]
        /\ Len(fdata[a].c) = 1
        /\ op[b] = "write_content" /\ pc[b] = "done" /\ ret[b] = RetBool(TRUE)
        /\ file = DocFile(<<>>)
        /\ \A u \in Threads \ {a, b} : pc[u] = "idle"

\* C10: a remove_by_uid call made with no concurrent caller on a document one
\* of whose records has the value in its uid field returns True and leaves as
\* Content the first record of the list without the first such record, or no
\* record when that list is empty.
C10_RemoveKeepsFirst ==
    \A t \in Threads :
        LET j == FirstOf({i \in 1..Len(Content0) :
                             /\ Has(Content0[i], arg[t].uid)
                             /\ Content0[i][arg[t].uid] = arg[t].value})
            rest == SubSeq(Content0, 1, j - 1) \o SubSeq(Content0, j + 1, Len(Content0))
        IN  ( /\ Left(t) /\ op[t] = "remove_by_uid"
              /\ file0.k = "doc" /\ j # 0 )
            => /\ pc[t] = "done"
               /\ ret[t] = RetBool(TRUE)
               /\ file = DocFile(IF rest = <<>> THEN <<>> ELSE <<Head(rest)>>)

\* C11: read_content() called alone never raises: it returns the "Content"
\* list when the file holds a document with one, and an empty value when the
\* file is absent, empty, no JSON, or an object without the "Content" key.
C11_ReadContentNoRaise ==
    \A t \in Threads :
        ( /\ Left(t)
          /\ op[t] = "read_content"
          /\ file0.k \in {"doc", "absent", "empty", "bad", "nocontent"} )
        => /\ pc[t] = "done"
           /\ IF file0.k = "doc" THEN ret[t] = List(file0.c)
              ELSE ret[t] \in {EmptyMap, List(<<>>)}

\* C12: when the threads call write or write_content while the parent
\* directory of the file does not exist, under every interleaving no call
\* raises, each returns a boolean, and once all have returned the directory
\* exists and every one of the writes has taken effect (returned True, the
\* file a document).
C12_MkdirRaceTolerated ==
    /\ \A t \in Threads :
          Left(t) => pc[t] = "done" /\ ret[t] \in {RetBool(TRUE), RetBool(FALSE)}
    /\ (\A t \in Threads : Left(t))
          => /\ dir_exists
             /\ file.k = "doc"
             /\ \A t \in Threads : ret[t] = RetBool(TRUE)

\* C13: clear_content() called alone returns True exactly when the file
\* exists and is not empty, and read_content() then returns the empty list;
\* on an absent or empty file it returns False and leaves the file as it was
\* (an absent file stays absent).
C13_ClearContent ==
    \A t \in Threads :
        (Left(t) /\ op[t] = "clear_content")
        => /\ pc[t] = "done"
           /\ IF file0.k \in {"absent", "empty"}
              THEN ret[t] = RetBool(FALSE) /\ file = file0
              ELSE /\ ret[t] = RetBool(TRUE)
                   /\ read_content_value(read_value(file)) = List(<<>>)

\* clear_content() has returned True on a document of MaxLen records
C13_Witness ==
    \E t \in Threads :
        /\ pc[t] = "done"
        /\ op[t] = "clear_content"
        /\ file0.k = "doc"
        /\ Len(file0.c) = MaxLen
        /\ ret[t] = RetBool(TRUE)
        /\ read_content_value(read_value(file)) = List(<<>>)

\* C14: with no concurrent caller, for every non-empty document d (a JSON
\* object, its keys strings) and whatever the file held before, write(d)
\* returns True and read() then returns a value equal to d.
JsonDocs == SeqDocs \ {EmptyMap, IntKeyObj}

C14_WriteReadRoundTrip ==
    \A t \in Threads :
        (Left(t) /\ op[t] = "write" /\ arg[t].doc \in JsonDocs)
        => /\ pc[t] = "done"
           /\ ret[t] = RetBool(TRUE)
           /\ read_value(file) = arg[t].doc

\* write(d) has returned on a file that held MaxLen other records
C14_Witness ==
    \E t \in Threads :
        /\ pc[t] = "done"
        /\ op[t] = "write"
        /\ arg[t].doc = Doc(<<RecB>>)
        /\ file0 = DocFile([i \in 1..MaxLen |-> RecA])
        /\ ret[t] = RetBool(TRUE)
        /\ read_value(file) = Doc(<<RecB>>)

\* C15: delete() returns True whether or not the file exists and leaves the
\* file absent; a second delete() after it returns True too and leaves the
\* same state, and a read() after it returns the empty mapping {}, not None.
C15_DeleteIdempotent ==
    \A t \in Threads :
        (Left(t) /\ op[t] = "delete")
        => /\ pc[t] = "done"
           /\ ret[t] = RetBool(TRUE)
           /\ file = AbsentFile
           /\ read_value(file) = EmptyMap
           /\ (\A u \in Threads : pc[u] = "idle" \/ Left(u)) => lock = 0
           /\ \A u \in Threads :
                 (u > t /\ Left(u))
                 => /\ pc[u] = "done"
                    /\ op[u] = "delete" => ret[u] = RetBool(TRUE)
                    /\ op[u] = "read" => ret[u] = EmptyMap

\* two delete() in a row have returned, the first on a file that existed
C15_Witness ==
    \E t, u \in Threads :
        /\ u = t + 1
        /\ pc[t] = "done" /\ op[t] = "delete"
        /\ pc[u] = "done" /\ op[u] = "delete"
        /\ file0.k = "doc"
        /\ ret[u] = RetBool(TRUE)
        /\ file = AbsentFile

\* C16: in every reachable state the lock is free or held by one thread,
\* and a thread holds it only inside the with block of read, write, delete,
\* write_content or clear_content: it is released on every way out (return
\* at the end, early return on an absent or empty file, caught exception),
\* so whenever no call is in progress the lock is free.
C16_LockNotHeldAcrossCalls ==
    /\ lock \in {0} \cup Threads
    /\ \A t \in Threads : lock = t => pc[t] \in HeldPcs
    /\ (\A t \in Threads : pc[t] \in {"idle", "done", "raised"}) => lock = 0

\* a thread has left write_content through the caught exception and another
\* thread, which was behind it, holds the lock
C16_Witness ==
    \E t, u \in Threads :
        /\ t # u
        /\ pc[t] = "done"
        /\ op[t] = "write_content"
        /\ ret[t] = RetBool(FALSE)
        /\ lock = u
        /\ pc[u] \in HeldPcs

\* C17: from an absent file, and from every document that calls of these
\* methods build from it, under any interleaving of write_content,
\* clear_content, update, update_twice, remove_by_uid and delete calls with
\* non-empty records, in every state in which the lock is free the file is
\* absent or a document whose "Content" is a list.
C17_DocumentShape ==
    lock = 0 => file.k \in {"absent", "doc"}

\* an append and an update have both returned True on a file that held
\* MaxLen records at first, the lock free
C17_Witness ==
    /\ lock = 0
    /\ file.k = "doc"
    /\ Len(file0.c) = MaxLen
    /\ \E t, u \in Threads :
          /\ pc[t] = "done" /\ op[t] = "update" /\ ret[t] = RetBool(TRUE)
          /\ pc[u] = "done" /\ op[u] = "write_content" /\ ret[u] = RetBool(TRUE)

\* C18: no thread asks for the lock while it holds it, and when scheduling
\* is fair every call that a thread has entered is eventually left.
C18_DeadlockFree ==
    /\ [](\A t \in Threads : pc[t] \in LockPcs => lock # t)
    /\ \A t \in Threads : (pc[t] # "idle") ~> Left(t)

\* remove_by_uid() waits for the lock a third time, for its write_content(),
\* while another thread holds it
C18_Witness ==
    \E t, u \in Threads :
        /\ t # u
        /\ op[t] = "remove_by_uid"
        /\ pc[t] = "wc_lock"
        /\ lock = u

\* C19: with no concurrent caller, remove_by_uid(value, uid) on a document
\* whose Content is not empty and holds no record with record[uid] = value
\* returns False and leaves Content with its former first record only; on an
\* absent or empty file it returns False and the file stays as it was.
NoMatch(c, element_value, uid) ==
    \A i \in 1..Len(c) : ~(Has(c[i], uid) /\ c[i][uid] = element_value)

C19_RemoveNoMatchRewrites ==
    \A t \in Threads :
        (Left(t) /\ op[t] = "remove_by_uid")
        => /\ ( /\ file0.k = "doc"
                /\ file0.c # <<>>
                /\ NoMatch(file0.c, arg[t].value, arg[t].uid) )
              => /\ pc[t] = "done"
                 /\ ret[t] = RetBool(FALSE)
                 /\ file = DocFile(<<Head(file0.c)>>)
           /\ file0.k \in {"absent", "empty"}
              => /\ pc[t] = "done"
                 /\ ret[t] = RetBool(FALSE)
                 /\ file = file0

\* C20: write_content() on a file that exists, is not empty and is no JSON,
\* or parses to an object without a "Content" list, returns False without
\* raising and leaves the file as it was.
C20_AppendUnparsable ==
    \A t \in Threads :
        ( /\ Left(t)
          /\ op[t] = "write_content"
          /\ file0.k \in {"bad", "nocontent", "notlist"} )
        => /\ pc[t] = "done"
           /\ ret[t] = RetBool(FALSE)
           /\ file = file0

\* write_content() of a full record has returned False on a file that is no
\* JSON
C20_Witness ==
    \E t \in Threads :
        /\ pc[t] = "done"
        /\ op[t] = "write_content"
        /\ arg[t].data = RecB
        /\ file0 = BadFile
        /\ ret[t] = RetBool(FALSE)
        /\ file = BadFile

====
